---- MODULE Spec2Model ----
(***************************************************************************)
(* Model of iterator/iterator.c: the iterator module of a recursive DNS    *)
(* resolver.  One query context per element of Queries; the dispatch loop  *)
(* delivers events (new, reply, timeout, error) and cleanup to the module  *)
(* entry points iter_operate and iter_clear.  The driving loop iter_handle *)
(* is modelled one handler invocation per step, so that the state at every *)
(* handler boundary is a state of the model.                               *)
(***************************************************************************)
EXTENDS Integers, Sequences, FiniteSets, TLC

(***************************************************************************)
(* Bounds of the model.                                                    *)
(***************************************************************************)
\* MAX_RESTART_COUNT is used at iterator.c:381; the header that sets it is
\* not among the sources, so its value is a parameter of the model.
MAX_RESTART_COUNT == 3
\* largest dependency depth of a query and largest configured limit
MaxDepth == 2
\* longest prepend list and longest record-set list of a message
MaxPrepend == 2
MaxRRsets == 2

Queries == {"A", "B"}

NULL == "NULL"

\* enum iter_state; memset(iq, 0, ...) leaves the first enumerator.
IterStates ==
    {"INIT_REQUEST_STATE", "INIT_REQUEST_2_STATE", "INIT_REQUEST_3_STATE",
     "QUERYTARGETS_STATE", "QUERY_RESP_STATE", "PRIME_RESP_STATE",
     "TARGET_RESP_STATE", "FINISHED_STATE"}

\* enum module_ext_state values the module reads or writes
ExtStates ==
    {"module_state_initial", "module_wait_reply", "module_error",
     "module_finished"}

\* enum module_ev
Events ==
    {"module_event_new", "module_event_reply", "module_event_timeout",
     "module_event_error", "module_event_pass"}

\* query names as label sequences, the root being the empty sequence
Names == {<< >>, <<"com">>, <<"example", "com">>}
QTypes == {"A", "DS"}
Rcodes == {"NOERROR", "SERVFAIL", "NXDOMAIN"}
RRsets == {"rrX", "rrY"}

\* header flag bits and EDNS bits are sets of bit names
FlagSets == {{}, {"RD"}, {"RD", "CD"}}
EdnsBitSets == {{}, {"DO", "Z"}}

RECURSIVE SeqsUpTo(_, _)
SeqsUpTo(S, n) ==
    IF n = 0 THEN {<< >>}
    ELSE LET shorter == SeqsUpTo(S, n - 1)
         IN  shorter \cup {Append(s, x) : s \in shorter, x \in S}

VARIABLES
    ie,         \* struct iter_env: the shared module environment
    qstate,     \* per query: the fields of module_qstate the module reads
    ext_state,  \* per query: qstate->ext_state[id]
    minfo,      \* per query: qstate->minfo[id], NULL or "iq"
    iq,         \* per query: the struct iter_qstate in the query's region
    buf,        \* per query: qstate->buf, the response buffer
    msg,        \* the struct dns_msg in the hands of response assembly
    cache,      \* replies stored with dns_cache_store_msg
    pc,         \* per query: "idle", or "handle" inside iter_handle
    active,     \* the queries the dispatch loop delivers events for
    started,    \* queries that got their new-query event
    cleared,    \* queries torn down by iter_clear
    fault,      \* the process has faulted on an invalid memory access
    inv,        \* per query: what the current entry-point invocation did
    last        \* per query: what the last handler or helper call did

vars == <<ie, qstate, ext_state, minfo, iq, buf, msg, cache, pc, active,
          started, cleared, fault, inv, last>>

(***************************************************************************)
(* Data.                                                                   *)
(***************************************************************************)
\* the response buffer before anything was encoded into it
NoEdns ==
    [edns_present |-> FALSE, edns_version |-> "none", udp_size |-> "none",
     ext_rcode |-> 0, bits |-> {}]

EmptyBuf ==
    [qr |-> 0, rcode |-> "NOERROR", flags |-> {},
     qd |-> [qname |-> << >>, qtype |-> "none"], an |-> << >>,
     edns |-> NoEdns]

\* no message at hand
NoMsg == [rrsets |-> << >>, rrset_count |-> 0, rcode |-> "NOERROR"]

\* memset(iq, 0, sizeof(*iq)) followed by outbound_list_init
ZeroIq ==
    [state |-> "INIT_REQUEST_STATE", final_state |-> "INIT_REQUEST_STATE",
     prepend_list |-> << >>, dp |-> NULL, current_target |-> NULL,
     num_target_queries |-> 0, num_current_queries |-> 0,
     query_restart_count |-> 0, referral_count |-> 0, priming_stub |-> 0,
     orig_qflags |-> {}, orig_qname |-> << >>, outlist |-> << >>]

NoInv ==
    [event |-> "none", handlers |-> 0, cache_lookups |-> 0,
     first_cache |-> "none", deleg_lookups |-> 0, sent |-> << >>,
     subqueries |-> 0]

NoLast ==
    [op |-> "none", cache |-> "none", cache_lookups |-> 0,
     deleg_lookups |-> 0, delname |-> << >>, ret |-> FALSE,
     rcode |-> "none", P |-> << >>, R |-> << >>, ok |-> TRUE,
     log_err |-> FALSE, prev_op |-> "none", prev_rcode |-> "none",
     event |-> "none", outbound |-> NULL, parse_ok |-> TRUE,
     enc_ok |-> TRUE, alloc_ok |-> TRUE, deleg |-> "none"]

(***************************************************************************)
(* Helpers of the state machine.                                           *)
(***************************************************************************)
iter_state_is_responsestate(s) ==
    ~(s \in {"INIT_REQUEST_STATE", "INIT_REQUEST_2_STATE",
             "INIT_REQUEST_3_STATE", "QUERYTARGETS_STATE"})

\* next_state: logs when a response state is entered without a response,
\* assigns the state all the same and returns 1.
next_state(qs, iqr, nextstate) ==
    [iq |-> [iqr EXCEPT !.state = nextstate],
     ret |-> TRUE,
     log_err |-> iter_state_is_responsestate(nextstate) /\ qs.reply = NULL]

\* a final-state transition that uses up the recorded final state
final_state_Consume(qs, iqr) ==
    LET n == next_state(qs, iqr, iqr.final_state)
    IN  [n EXCEPT !.iq.final_state = "INIT_REQUEST_STATE"]

final_state(qs, iqr) == next_state(qs, iqr, iqr.final_state)

\* qinfo_query_encode: the buffer is rewritten to a bare query, flags and
\* rcode zero, holding the question section only.
qinfo_query_encode(qinfo) ==
    [qr |-> 0, rcode |-> "NOERROR", flags |-> {},
     qd |-> [qname |-> qinfo.qname, qtype |-> qinfo.qtype], an |-> << >>,
     edns |-> NoEdns]

\* LDNS_RCODE_SET puts rcode into the rcode bits of the header: on bits
\* that are zero, or already rcode, the result is rcode.
LDNS_RCODE_SET(b, rcode) ==
    [b EXCEPT !.rcode = IF b.rcode \in {"NOERROR", rcode} THEN rcode
                        ELSE "mixed"]

LDNS_QR_SET(b) == [b EXCEPT !.qr = 1]

\* an error response that encodes the error and stays in the current state
error_response_NoFinal(qs, iqr, rcode) ==
    [iq |-> iqr,
     buf |-> LDNS_QR_SET(LDNS_RCODE_SET(qinfo_query_encode(qs.qinfo), rcode)),
     ret |-> TRUE,
     log_err |-> FALSE]

\* an error response that tells the loop to suspend
error_response_Suspends(qs, iqr, rcode) ==
    LET fs == final_state(qs, iqr)
    IN  [iq |-> fs.iq,
         buf |-> LDNS_QR_SET(LDNS_RCODE_SET(qinfo_query_encode(qs.qinfo),
                                            rcode)),
         ret |-> FALSE,
         log_err |-> fs.log_err]

error_response(qs, iqr, rcode) ==
    LET fs == final_state(qs, iqr)
    IN  [iq |-> fs.iq,
         buf |-> LDNS_QR_SET(LDNS_RCODE_SET(qinfo_query_encode(qs.qinfo),
                                            rcode)),
         ret |-> fs.ret,
         log_err |-> fs.log_err]

(***************************************************************************)
(* Response assembly.                                                      *)
(***************************************************************************)
\* what the wire encoder reads of a message: the first rrset_count entries
\* of its rrsets array
EncoderView(m) ==
    SubSeq(m.rrsets, 1,
           IF m.rrset_count <= Len(m.rrsets) THEN m.rrset_count
           ELSE Len(m.rrsets))

\* iter_prepend: a new array holds the prepend list followed by the
\* rrset_count entries of the message; the array replaces msg->rep->rrsets,
\* and msg->rep->rrset_count is not assigned.
iter_prepend(iqr, m, alloc_ok) ==
    LET num == Len(iqr.prepend_list)
    IN  IF num = 0 THEN [ok |-> TRUE, msg |-> m]
        ELSE IF ~alloc_ok THEN [ok |-> FALSE, msg |-> m]
        ELSE [ok |-> TRUE,
              msg |-> [m EXCEPT !.rrsets =
                          iqr.prepend_list \o EncoderView(m)]]

\* reply_info_answer_encode, when it succeeds: the answer with the given
\* question, flags and EDNS record
reply_info_answer_encode(qinf, rep, flags, edns) ==
    [qr |-> 1, rcode |-> rep.rcode, flags |-> flags,
     qd |-> [qname |-> qinf.qname, qtype |-> qinf.qtype],
     an |-> EncoderView(rep), edns |-> edns]

\* an EDNS record that echoes all the client's bits
RespEdns_NoMask(qs) ==
    [edns_present |-> qs.edns.edns_present,
     edns_version |-> "EDNS_ADVERTISED_VERSION",
     udp_size |-> "EDNS_ADVERTISED_SIZE",
     ext_rcode |-> 0,
     bits |-> qs.edns.bits]

\* the EDNS record iter_encode_respmsg hands to the encoder
RespEdns(qs) ==
    [edns_present |-> qs.edns.edns_present,
     edns_version |-> "EDNS_ADVERTISED_VERSION",
     udp_size |-> "EDNS_ADVERTISED_SIZE",
     ext_rcode |-> 0,
     bits |-> qs.edns.bits \cap {"DO"}]

\* a response assembly that returns on failure without encoding an error
iter_encode_respmsg_Propagate(qs, iqr, m, alloc_ok, enc_ok) ==
    LET qinf == IF iqr.orig_qname # << >>
                THEN [qs.qinfo EXCEPT !.qname = iqr.orig_qname[1]]
                ELSE qs.qinfo
        pre  == IF iqr.prepend_list # << >>
                THEN iter_prepend(iqr, m, alloc_ok)
                ELSE [ok |-> TRUE, msg |-> m]
    IN  IF ~pre.ok \/ ~enc_ok
        THEN [iq |-> iqr, buf |-> EmptyBuf, msg |-> pre.msg,
              ok |-> FALSE, log_err |-> FALSE]
        ELSE [iq |-> iqr,
              buf |-> reply_info_answer_encode(qinf, pre.msg,
                                               iqr.orig_qflags, RespEdns(qs)),
              msg |-> pre.msg, ok |-> TRUE, log_err |-> FALSE]

\* iter_encode_respmsg; alloc_ok: region_alloc succeeds in iter_prepend,
\* enc_ok: the encoder succeeds.
iter_encode_respmsg(qs, iqr, m, alloc_ok, enc_ok) ==
    LET qinf == IF iqr.orig_qname # << >>
                THEN [qs.qinfo EXCEPT !.qname = iqr.orig_qname[1]]
                ELSE qs.qinfo
        pre  == IF iqr.prepend_list # << >>
                THEN iter_prepend(iqr, m, alloc_ok)
                ELSE [ok |-> TRUE, msg |-> m]
        err  == error_response(qs, iqr, "SERVFAIL")
    IN  IF ~pre.ok \/ ~enc_ok
        THEN [iq |-> err.iq, buf |-> err.buf, msg |-> pre.msg,
              ok |-> FALSE, log_err |-> err.log_err]
        ELSE [iq |-> iqr,
              buf |-> reply_info_answer_encode(qinf, pre.msg,
                                               iqr.orig_qflags, RespEdns(qs)),
              msg |-> pre.msg, ok |-> TRUE, log_err |-> FALSE]

(***************************************************************************)
(* processInitRequest.                                                     *)
(***************************************************************************)
\* a limit check that lets one more restart through
RestartsExceeded_Loose(iqr) ==
    iqr.query_restart_count > MAX_RESTART_COUNT + 1

\* the restart limit check
RestartsExceeded(iqr) == iqr.query_restart_count > MAX_RESTART_COUNT

\* a depth check that also rejects a depth equal to the maximum
DepthExceeded_Geq(d, env) == d >= env.max_dependency_depth

\* the dependency depth check
DepthExceeded(d, env) == d > env.max_dependency_depth

\* a restart that forgets to count itself
CacheHitRestart_NoCount(qs, iqr) ==
    next_state(qs, iqr, "INIT_REQUEST_STATE")

\* a positive cache response: the test of the response type is commented
\* out, so every cached message takes the restart branch
CacheHitRestart(qs, iqr) ==
    next_state(qs,
               [iqr EXCEPT !.query_restart_count = iqr.query_restart_count + 1],
               "INIT_REQUEST_STATE")

\* a delegation lookup name that strips the leftmost label for every type
DelegationName_AnyType(qinfo) ==
    IF qinfo.qname # << >> THEN Tail(qinfo.qname) ELSE qinfo.qname

\* the name handed to the delegation lookup
DelegationName(qinfo) ==
    IF qinfo.qtype = "DS" /\ qinfo.qname # << >>
    THEN Tail(qinfo.qname)
    ELSE qinfo.qname

\* an InitRequest handler that moves on without recording the delegation
\* point it found
processInitRequest_DropsDp(qs, iqr, bf, env, c, d) ==
    LET base == [iq |-> iqr, buf |-> bf, ret |-> FALSE, rcode |-> "none",
                 cache |-> "none", cache_lookups |-> 0, deleg_lookups |-> 0,
                 delname |-> << >>, log_err |-> FALSE]
        err  == error_response(qs, iqr, "SERVFAIL")
        rej  == [base EXCEPT !.iq = err.iq, !.buf = err.buf, !.ret = err.ret,
                             !.rcode = "SERVFAIL", !.log_err = err.log_err]
        hit  == CacheHitRestart(qs, iqr)
        withdp == [iqr EXCEPT !.dp = d]
        nxt  == next_state(qs, iqr, "INIT_REQUEST_2_STATE")
        looked == [base EXCEPT !.cache = c, !.cache_lookups = 1]
        deleg  == [looked EXCEPT !.deleg_lookups = 1,
                                 !.delname = <<DelegationName(qs.qinfo)>>]
    IN  IF RestartsExceeded(iqr) THEN rej
        ELSE IF DepthExceeded(qs.depth, env) THEN rej
        ELSE IF c # "miss"
        THEN [looked EXCEPT !.iq = hit.iq, !.ret = hit.ret,
                            !.log_err = hit.log_err]
        ELSE IF d = NULL
        THEN [deleg EXCEPT !.iq = withdp, !.ret = FALSE]
        ELSE [deleg EXCEPT !.iq = nxt.iq, !.ret = nxt.ret,
                           !.log_err = nxt.log_err]

\* c: what dns_cache_lookup returns ("miss", "answer", "cname");
\* d: what dns_cache_find_delegation returns (NULL or a delegation point).
\* The result holds the new iq and buffer, the return value and what the
\* handler looked up.
processInitRequest(qs, iqr, bf, env, c, d) ==
    LET base == [iq |-> iqr, buf |-> bf, ret |-> FALSE, rcode |-> "none",
                 cache |-> "none", cache_lookups |-> 0, deleg_lookups |-> 0,
                 delname |-> << >>, log_err |-> FALSE]
        err  == error_response(qs, iqr, "SERVFAIL")
        rej  == [base EXCEPT !.iq = err.iq, !.buf = err.buf, !.ret = err.ret,
                             !.rcode = "SERVFAIL", !.log_err = err.log_err]
        hit  == CacheHitRestart(qs, iqr)
        withdp == [iqr EXCEPT !.dp = d]
        nxt  == next_state(qs, withdp, "INIT_REQUEST_2_STATE")
        looked == [base EXCEPT !.cache = c, !.cache_lookups = 1]
        deleg  == [looked EXCEPT !.deleg_lookups = 1,
                                 !.delname = <<DelegationName(qs.qinfo)>>]
    IN  IF RestartsExceeded(iqr) THEN rej
        ELSE IF DepthExceeded(qs.depth, env) THEN rej
        ELSE IF c # "miss"
        THEN [looked EXCEPT !.iq = hit.iq, !.ret = hit.ret,
                            !.log_err = hit.log_err]
        ELSE IF d = NULL
        THEN [deleg EXCEPT !.iq = withdp, !.ret = FALSE]
        ELSE [deleg EXCEPT !.iq = nxt.iq, !.ret = nxt.ret,
                           !.log_err = nxt.log_err]

(***************************************************************************)
(* Forwarding mode.                                                        *)
(***************************************************************************)
\* a forwarded query that drops the client's CD bit
FwdQuery_NoCD(qs, env) ==
    [qname |-> qs.qinfo.qname, qtype |-> qs.qinfo.qtype,
     flags |-> {}, dnssec |-> 1, addr |-> "fwd_addr",
     addrlen |-> env.fwd_addrlen]

\* the arguments fwd_new hands to env->send_query
FwdQuery(qs, env) ==
    [qname |-> qs.qinfo.qname, qtype |-> qs.qinfo.qtype,
     flags |-> IF qs.qinfo.has_cd THEN {"CD"} ELSE {},
     dnssec |-> 1, addr |-> "fwd_addr", addrlen |-> env.fwd_addrlen]

\* a fwd_new that gives the query state a delegation point before sending
fwd_new_WithDp(qs, iqr, env, alloc_ok, send_ok) ==
    IF ~alloc_ok
    THEN [ret |-> FALSE, minfo |-> NULL, iq |-> iqr, sent |-> << >>,
          ext_state |-> "same"]
    ELSE IF ~send_ok
    THEN [ret |-> FALSE, minfo |-> "iq", iq |-> [ZeroIq EXCEPT !.dp = "dp"],
          sent |-> <<FwdQuery(qs, env)>>, ext_state |-> "same"]
    ELSE [ret |-> TRUE, minfo |-> "iq",
          iq |-> [ZeroIq EXCEPT !.dp = "dp",
                                !.outlist = <<FwdQuery(qs, env)>>],
          sent |-> <<FwdQuery(qs, env)>>,
          ext_state |-> "module_wait_reply"]

\* fwd_new; alloc_ok: region_alloc succeeds, send_ok: send_query returns an
\* entry.  ext_state is "same" where fwd_new does not assign it.
fwd_new(qs, iqr, env, alloc_ok, send_ok) ==
    IF ~alloc_ok
    THEN [ret |-> FALSE, minfo |-> NULL, iq |-> iqr, sent |-> << >>,
          ext_state |-> "same"]
    ELSE IF ~send_ok
    THEN [ret |-> FALSE, minfo |-> "iq", iq |-> ZeroIq,
          sent |-> <<FwdQuery(qs, env)>>, ext_state |-> "same"]
    ELSE [ret |-> TRUE, minfo |-> "iq",
          iq |-> [ZeroIq EXCEPT !.outlist = <<FwdQuery(qs, env)>>],
          sent |-> <<FwdQuery(qs, env)>>,
          ext_state |-> "module_wait_reply"]

\* the messages a reply may parse to
ReplyMsgs ==
    {[rrsets |-> <<"rrX">>, rrset_count |-> 1, rcode |-> "NOERROR"],
     [rrsets |-> << >>, rrset_count |-> 0, rcode |-> "NXDOMAIN"]}

\* the EDNS record iter_handlereply leaves in qstate->edns
ReplyEdns(qs) ==
    [edns_present |-> qs.edns.edns_present,
     edns_version |-> "EDNS_ADVERTISED_VERSION",
     udp_size |-> "EDNS_ADVERTISED_SIZE",
     ext_rcode |-> 0,
     bits |-> qs.edns.bits \cap {"DO"}]

\* a reply handler that stores the parsed reply before it is encoded
iter_handlereply_StoreFirst(qs, bf, rm, parse_ok, enc_ok) ==
    IF ~parse_ok
    THEN [ret |-> FALSE, qstate |-> qs, buf |-> bf, store |-> FALSE]
    ELSE LET qs2 == [qs EXCEPT !.edns = ReplyEdns(qs)]
         IN  IF ~enc_ok
             THEN [ret |-> FALSE, qstate |-> qs2, buf |-> bf,
                   store |-> TRUE]
             ELSE [ret |-> TRUE, qstate |-> qs2,
                   buf |-> reply_info_answer_encode(qs.qinfo, rm,
                                                    qs.query_flags, qs2.edns),
                   store |-> TRUE]

\* iter_handlereply; rm: the message the reply parses to.  Where the
\* encoder fails the buffer is kept as it was: the module state is then
\* module_error and the buffer is not sent.
iter_handlereply(qs, bf, rm, parse_ok, enc_ok) ==
    IF ~parse_ok
    THEN [ret |-> FALSE, qstate |-> qs, buf |-> bf, store |-> FALSE]
    ELSE LET qs2 == [qs EXCEPT !.edns = ReplyEdns(qs)]
         IN  IF ~enc_ok
             THEN [ret |-> FALSE, qstate |-> qs2, buf |-> bf,
                   store |-> FALSE]
             ELSE [ret |-> TRUE, qstate |-> qs2,
                   buf |-> reply_info_answer_encode(qs.qinfo, rm,
                                                    qs.query_flags, qs2.edns),
                   store |-> TRUE]

\* perform_forward for an event other than module_event_new: the module
\* state it leaves and the effects of iter_handlereply, if that ran.
perform_forward(qs, bf, event, outbound, rm, parse_ok, enc_ok) ==
    LET none == [ext_state |-> "module_error", qstate |-> qs, buf |-> bf,
                 store |-> FALSE]
        hr   == iter_handlereply(qs, bf, rm, parse_ok, enc_ok)
    IN  IF outbound = NULL THEN none
        ELSE IF event \in {"module_event_timeout", "module_event_error"}
        THEN none
        ELSE IF event = "module_event_reply"
        THEN [ext_state |-> IF hr.ret THEN "module_finished"
                            ELSE "module_error",
              qstate |-> hr.qstate, buf |-> hr.buf, store |-> hr.store]
        ELSE none

(***************************************************************************)
(* The dispatch loop: which events it delivers.                            *)
(***************************************************************************)
Quiet == ~fault /\ \A p \in Queries : pc[p] = "idle"

\* a query that can get its new-query event
Fresh(q) == q \in active /\ Quiet /\ q \notin started /\ q \notin cleared

\* a query that can get a later event
Waiting(q) ==
    /\ q \in active /\ Quiet /\ q \in started /\ q \notin cleared
    /\ ext_state[q] \in {"module_state_initial", "module_wait_reply"}

(***************************************************************************)
(* iter_operate.                                                           *)
(***************************************************************************)
\* iter_operate, forward address configured, module_event_new
FwdNew(q) ==
    /\ Fresh(q)
    /\ ie.fwd_addrlen # 0
    /\ \E alloc_ok \in BOOLEAN, send_ok \in BOOLEAN :
         LET r == fwd_new(qstate[q], iq[q], ie, alloc_ok, send_ok)
         IN  /\ minfo' = [minfo EXCEPT ![q] = r.minfo]
             /\ iq' = [iq EXCEPT ![q] = r.iq]
             /\ ext_state' = [ext_state EXCEPT ![q] =
                     IF ~r.ret THEN "module_error" ELSE r.ext_state]
             /\ inv' = [inv EXCEPT ![q] =
                     [NoInv EXCEPT !.event = "module_event_new",
                                   !.sent = r.sent]]
             /\ last' = [last EXCEPT ![q] =
                     [NoLast EXCEPT !.op = "fwd_new", !.ret = r.ret,
                                    !.event = "module_event_new"]]
    /\ started' = started \cup {q}
    /\ UNCHANGED <<ie, qstate, buf, msg, cache, pc, active, cleared, fault>>

\* iter_operate, forward address configured, any later event
FwdEvent(q) ==
    /\ Waiting(q)
    /\ ie.fwd_addrlen # 0
    /\ \E event \in Events \ {"module_event_new"},
          outbound \in {NULL, "outbound"},
          rm \in ReplyMsgs, parse_ok \in BOOLEAN, enc_ok \in BOOLEAN :
         LET qs == [qstate[q] EXCEPT !.reply =
                       IF event = "module_event_reply" THEN "reply"
                       ELSE NULL]
             r  == perform_forward(qs, buf[q], event, outbound, rm,
                                   parse_ok, enc_ok)
         IN  /\ qstate' = [qstate EXCEPT ![q] = r.qstate]
             /\ buf' = [buf EXCEPT ![q] = r.buf]
             /\ ext_state' = [ext_state EXCEPT ![q] = r.ext_state]
             /\ cache' = IF r.store THEN cache \cup {<<q, rm>>} ELSE cache
             /\ inv' = [inv EXCEPT ![q] = [NoInv EXCEPT !.event = event]]
             /\ last' = [last EXCEPT ![q] =
                     [NoLast EXCEPT !.op = "perform_forward",
                                    !.ret = r.store, !.event = event,
                                    !.outbound = outbound,
                                    !.parse_ok = parse_ok,
                                    !.enc_ok = enc_ok]]
    /\ UNCHANGED <<ie, minfo, iq, msg, pc, active, started, cleared, fault>>

\* iter_new: the query state as it is created; process_request then assigns
\* state and final_state again
iter_new(qs) ==
    [ZeroIq EXCEPT !.state = "INIT_REQUEST_STATE",
                   !.final_state = "FINISHED_STATE",
                   !.num_target_queries = -1,
                   !.orig_qflags = qs.query_flags]

process_request(iqr) ==
    [iqr EXCEPT !.state = "INIT_REQUEST_STATE",
                !.final_state = "FINISHED_STATE"]

process_response(iqr) == [iqr EXCEPT !.state = "QUERY_RESP_STATE"]

\* iter_operate, no forward address, module_event_new: iter_new, then
\* process_request up to the first turn of the loop of iter_handle
IterNew(q) ==
    /\ Fresh(q)
    /\ ie.fwd_addrlen = 0
    /\ \E alloc_ok \in BOOLEAN :
         IF alloc_ok
         THEN /\ minfo' = [minfo EXCEPT ![q] = "iq"]
              /\ iq' = [iq EXCEPT ![q] = process_request(iter_new(qstate[q]))]
              /\ pc' = [pc EXCEPT ![q] = "handle"]
              /\ UNCHANGED ext_state
         ELSE /\ minfo' = [minfo EXCEPT ![q] = NULL]
              /\ ext_state' = [ext_state EXCEPT ![q] = "module_error"]
              /\ UNCHANGED <<iq, pc>>
    /\ started' = started \cup {q}
    /\ inv' = [inv EXCEPT ![q] = [NoInv EXCEPT !.event = "module_event_new"]]
    /\ last' = [last EXCEPT ![q] = [NoLast EXCEPT !.op = "iter_new"]]
    /\ UNCHANGED <<ie, qstate, buf, msg, cache, active, cleared, fault>>

\* iter_operate, no forward address, module_event_reply: process_response
\* up to the first turn of the loop of iter_handle
IterReply(q) ==
    /\ Waiting(q)
    /\ ie.fwd_addrlen = 0
    /\ qstate' = [qstate EXCEPT ![q].reply = "reply"]
    /\ iq' = [iq EXCEPT ![q] = process_response(iq[q])]
    /\ pc' = [pc EXCEPT ![q] = "handle"]
    /\ inv' = [inv EXCEPT ![q] = [NoInv EXCEPT !.event = "module_event_reply"]]
    /\ last' = [last EXCEPT ![q] = [NoLast EXCEPT !.op = "process_response"]]
    /\ UNCHANGED <<ie, ext_state, minfo, buf, msg, cache, active, started,
                   cleared, fault>>

\* an unrecognized event that flags every query as errored
IterBadEvent_ErrorsAll(q) ==
    /\ Waiting(q)
    /\ ie.fwd_addrlen = 0
    /\ \E event \in Events \ {"module_event_new", "module_event_reply"} :
         inv' = [inv EXCEPT ![q] = [NoInv EXCEPT !.event = event]]
    /\ ext_state' = [p \in Queries |-> "module_error"]
    /\ last' = [last EXCEPT ![q] = [NoLast EXCEPT !.op = "bad_event"]]
    /\ UNCHANGED <<ie, qstate, minfo, iq, buf, msg, cache, pc, active,
                   started, cleared, fault>>

\* an unrecognized event that also resets the query state
IterBadEvent_Resets(q) ==
    /\ Waiting(q)
    /\ ie.fwd_addrlen = 0
    /\ \E event \in Events \ {"module_event_new", "module_event_reply"} :
         inv' = [inv EXCEPT ![q] = [NoInv EXCEPT !.event = event]]
    /\ ext_state' = [ext_state EXCEPT ![q] = "module_error"]
    /\ iq' = [iq EXCEPT ![q] = process_request(iq[q])]
    /\ last' = [last EXCEPT ![q] = [NoLast EXCEPT !.op = "bad_event"]]
    /\ UNCHANGED <<ie, qstate, minfo, buf, msg, cache, pc, active,
                   started, cleared, fault>>

\* iter_operate, no forward address, any other event
IterBadEvent(q) ==
    /\ Waiting(q)
    /\ ie.fwd_addrlen = 0
    /\ \E event \in Events \ {"module_event_new", "module_event_reply"} :
         inv' = [inv EXCEPT ![q] = [NoInv EXCEPT !.event = event]]
    /\ ext_state' = [ext_state EXCEPT ![q] = "module_error"]
    /\ last' = [last EXCEPT ![q] = [NoLast EXCEPT !.op = "bad_event"]]
    /\ UNCHANGED <<ie, qstate, minfo, iq, buf, msg, cache, pc, active,
                   started, cleared, fault>>

\* one turn of the loop of iter_handle: the handler of the current state;
\* a state without a handler ends the loop
HandleStep(q) ==
    /\ ~fault
    /\ pc[q] = "handle"
    /\ \E c \in {"miss", "answer", "cname"}, d \in {NULL, "dp"} :
         IF iq[q].state = "INIT_REQUEST_STATE"
         THEN LET r == processInitRequest(qstate[q], iq[q], buf[q], ie, c, d)
              IN  /\ iq' = [iq EXCEPT ![q] = r.iq]
                  /\ buf' = [buf EXCEPT ![q] = r.buf]
                  /\ pc' = [pc EXCEPT ![q] =
                          IF r.ret THEN "handle" ELSE "idle"]
                  /\ inv' = [inv EXCEPT ![q] =
                          [inv[q] EXCEPT !.handlers = @ + 1,
                                    !.cache_lookups = @ + r.cache_lookups,
                                    !.first_cache =
                                        IF inv[q].cache_lookups = 0
                                        THEN r.cache ELSE @,
                                    !.deleg_lookups = @ + r.deleg_lookups]]
                  /\ last' = [last EXCEPT ![q] =
                          [NoLast EXCEPT !.op = "processInitRequest",
                                         !.cache = r.cache,
                                         !.cache_lookups = r.cache_lookups,
                                         !.deleg_lookups = r.deleg_lookups,
                                         !.delname = r.delname,
                                         !.deleg =
                                             IF r.deleg_lookups = 1
                                             THEN d ELSE "none",
                                         !.ret = r.ret,
                                         !.rcode = r.rcode,
                                         !.log_err = r.log_err]]
         ELSE /\ pc' = [pc EXCEPT ![q] = "idle"]
              /\ last' = [last EXCEPT ![q] =
                      [NoLast EXCEPT !.op = "invalid_state"]]
              /\ UNCHANGED <<iq, buf, inv>>
    /\ UNCHANGED <<ie, qstate, ext_state, minfo, msg, cache, active, started,
                   cleared, fault>>

\* iter_clear: iq->outlist is reached through minfo[id]; through a null
\* pointer the access faults
Clear(q) ==
    /\ q \in active
    /\ Quiet
    /\ IF minfo[q] = NULL
       THEN /\ fault' = TRUE
            /\ UNCHANGED <<iq, minfo>>
       ELSE /\ iq' = [iq EXCEPT ![q].outlist = << >>]
            /\ minfo' = [minfo EXCEPT ![q] = NULL]
            /\ UNCHANGED fault
    /\ cleared' = cleared \cup {q}
    /\ last' = [last EXCEPT ![q] = [NoLast EXCEPT !.op = "iter_clear"]]
    /\ UNCHANGED <<ie, qstate, ext_state, buf, msg, cache, pc, active,
                   started, inv>>

(***************************************************************************)
(* The module under the dispatch loop.                                     *)
(***************************************************************************)
\* struct iter_env after iter_init
IterEnvs ==
    [fwd_addrlen : {0, 16}, max_dependency_depth : 0 .. MaxDepth]

ClientEdns ==
    {[edns_present |-> TRUE, edns_version |-> "client", udp_size |-> "client",
      ext_rcode |-> 0, bits |-> b] : b \in EdnsBitSets}

\* the query contexts the dispatch loop creates
QStates ==
    [qinfo : [qname : Names, qtype : QTypes, has_cd : BOOLEAN],
     query_flags : FlagSets, edns : ClientEdns, depth : 0 .. MaxDepth + 1,
     reply : {NULL}]

IdleQState ==
    [qinfo |-> [qname |-> << >>, qtype |-> "A", has_cd |-> FALSE],
     query_flags |-> {},
     edns |-> [edns_present |-> TRUE, edns_version |-> "client",
               udp_size |-> "client", ext_rcode |-> 0, bits |-> {}],
     depth |-> 0, reply |-> NULL]

InitCommon ==
    /\ ext_state = [q \in Queries |-> "module_state_initial"]
    /\ minfo = [q \in Queries |-> NULL]
    /\ buf = [q \in Queries |-> EmptyBuf]
    /\ cache = {}
    /\ pc = [q \in Queries |-> "idle"]
    /\ started = {}
    /\ cleared = {}
    /\ fault = FALSE
    /\ inv = [q \in Queries |-> NoInv]
    /\ last = [q \in Queries |-> NoLast]

Init ==
    /\ InitCommon
    /\ active = {"A"}
    /\ ie \in IterEnvs
    /\ qstate \in {f \in [Queries -> QStates \cup {IdleQState}] :
                     \A q \in Queries \ active : f[q] = IdleQState}
    /\ iq = [q \in Queries |-> ZeroIq]
    /\ msg = NoMsg

Next ==
    \/ \E q \in Queries : FwdNew(q)
    \/ \E q \in Queries : FwdEvent(q)
    \/ \E q \in Queries : IterNew(q)
    \/ \E q \in Queries : IterReply(q)
    \/ \E q \in Queries : IterBadEvent(q)
    \/ \E q \in Queries : HandleStep(q)
    \/ \E q \in Queries : Clear(q)

Spec == Init /\ [][Next]_vars

(***************************************************************************)
(* Two independent client queries under the dispatch loop.                 *)
(***************************************************************************)
\* the query contexts of the two queries: within and beyond the depth
\* limit
TwoQStates ==
    {[IdleQState EXCEPT !.qinfo.qname = <<"example", "com">>,
                        !.qinfo.has_cd = (d = 0), !.depth = d] :
        d \in {0, MaxDepth + 1}}

InitTwo ==
    /\ InitCommon
    /\ active = Queries
    /\ ie \in IterEnvs
    /\ qstate \in [Queries -> TwoQStates]
    /\ iq = [q \in Queries |-> ZeroIq]
    /\ msg = NoMsg

SpecTwo == InitTwo /\ [][Next]_vars

(***************************************************************************)
(* The helpers applied to any query state: error_response and response     *)
(* assembly on a query state, a message and a prepend list drawn from      *)
(* bounded sets.                                                           *)
(***************************************************************************)
Msgs ==
    {[rrsets |-> r, rrset_count |-> Len(r), rcode |-> "NOERROR"] :
        r \in SeqsUpTo(RRsets, MaxRRsets)}

UnitIqs ==
    {[ZeroIq EXCEPT !.state = s, !.final_state = f, !.prepend_list = p,
                    !.orig_qflags = {"RD"}] :
        s \in IterStates, f \in {"FINISHED_STATE", "PRIME_RESP_STATE"},
        p \in SeqsUpTo(RRsets, MaxPrepend)}

UnitQStates ==
    {[IdleQState EXCEPT !.qinfo.qname = <<"example", "com">>,
                        !.edns.bits = b, !.reply = r] :
        b \in EdnsBitSets, r \in {NULL, "reply"}}

InitUnit ==
    /\ InitCommon
    /\ active = {}
    /\ ie = [fwd_addrlen |-> 0, max_dependency_depth |-> MaxDepth]
    /\ qstate \in {f \in [Queries -> UnitQStates \cup {IdleQState}] :
                     f["A"] \in UnitQStates /\ f["B"] = IdleQState}
    /\ iq \in {f \in [Queries -> UnitIqs \cup {ZeroIq}] :
                     f["A"] \in UnitIqs /\ f["B"] = ZeroIq}
    /\ msg \in Msgs

\* error_response(qstate, iq, rcode) on query q
CallErrorResponse(q) ==
    /\ q = "A"
    /\ \E rcode \in Rcodes :
         LET r == error_response(qstate[q], iq[q], rcode)
         IN  /\ iq' = [iq EXCEPT ![q] = r.iq]
             /\ buf' = [buf EXCEPT ![q] = r.buf]
             /\ last' = [last EXCEPT ![q] =
                     [NoLast EXCEPT !.op = "error_response", !.rcode = rcode,
                                    !.ret = r.ret, !.log_err = r.log_err,
                                    !.prev_op = last[q].op,
                                    !.prev_rcode = last[q].rcode]]
    /\ UNCHANGED <<ie, qstate, ext_state, minfo, msg, cache, pc, active,
                   started, cleared, fault, inv>>

\* iter_encode_respmsg(qstate, iq, msg) on query q
CallEncodeRespmsg(q) ==
    /\ q = "A"
    /\ \E alloc_ok \in BOOLEAN, enc_ok \in BOOLEAN :
         LET r == iter_encode_respmsg(qstate[q], iq[q], msg, alloc_ok, enc_ok)
         IN  /\ iq' = [iq EXCEPT ![q] = r.iq]
             /\ buf' = [buf EXCEPT ![q] = r.buf]
             /\ msg' = r.msg
             /\ last' = [last EXCEPT ![q] =
                     [NoLast EXCEPT !.op = "iter_encode_respmsg",
                                    !.P = iq[q].prepend_list,
                                    !.R = EncoderView(msg),
                                    !.ok = r.ok, !.log_err = r.log_err,
                                    !.alloc_ok = alloc_ok,
                                    !.enc_ok = enc_ok,
                                    !.prev_op = last[q].op,
                                    !.prev_rcode = last[q].rcode]]
    /\ UNCHANGED <<ie, qstate, ext_state, minfo, cache, pc, active,
                   started, cleared, fault, inv>>

NextUnit ==
    \/ \E q \in Queries : CallErrorResponse(q)
    \/ \E q \in Queries : CallEncodeRespmsg(q)

SpecUnit == InitUnit /\ [][NextUnit]_vars

(***************************************************************************)
(* Properties.                                                             *)
(***************************************************************************)
\* a SERVFAIL error response is in the buffer of q
ServfailEncoded(q) ==
    /\ buf[q].qr = 1
    /\ buf[q].rcode = "SERVFAIL"
    /\ buf[q].qd = [qname |-> qstate[q].qinfo.qname,
                    qtype |-> qstate[q].qinfo.qtype]
    /\ buf[q].an = << >>

\* the step is an invocation of the InitRequest handler for q
InitRequestRuns(q) ==
    /\ pc[q] = "handle"
    /\ iq[q].state = "INIT_REQUEST_STATE"
    /\ last'[q].op = "processInitRequest"

\* the invocation of iter_operate for a new-query event of q, in state
\* machine mode and with the query state created, has returned
NewQueryReturned(q) ==
    /\ ie.fwd_addrlen = 0
    /\ inv[q].event = "module_event_new"
    /\ minfo[q] # NULL
    /\ pc[q] = "idle"

\* C1: a started query in state-machine mode ends in Finished with an
\* answer or a SERVFAIL response in the buffer; it is never left stopped in
\* a non-terminal state with no outbound query and no subordinate query
\* that could resume it.
C1_StartedQueryIsAnswered ==
    \A q \in Queries :
        NewQueryReturned(q) =>
            \/ iq[q].state = "FINISHED_STATE" /\ buf[q].qr = 1
            \/ iq[q].outlist # << >>
            \/ inv[q].subqueries > 0

\* C2: a new query whose cache lookup returns a message that answers it
\* ends in Finished with the answer (no error response) encoded, the
\* restart count unchanged, and no delegation lookup or query issued.
C2_CacheHitAnswerFinishes ==
    \A q \in Queries :
        (NewQueryReturned(q) /\ inv[q].first_cache = "answer") =>
            /\ iq[q].state = "FINISHED_STATE"
            /\ buf[q].qr = 1
            /\ buf[q].rcode # "SERVFAIL"
            /\ iq[q].query_restart_count = 0
            /\ inv[q].deleg_lookups = 0
            /\ inv[q].sent = << >>
            /\ inv[q].subqueries = 0

\* the counters of one query state never decrease
CountersMonotone(q) ==
    (minfo[q] # NULL /\ minfo'[q] # NULL) =>
        /\ iq'[q].query_restart_count >= iq[q].query_restart_count
        /\ iq'[q].referral_count >= iq[q].referral_count

\* the restart count is within the maximum, or the query is terminal with
\* SERVFAIL encoded
RestartWithinMax(q) ==
    \/ iq[q].query_restart_count <= MAX_RESTART_COUNT
    \/ iq[q].state = "FINISHED_STATE" /\ ServfailEncoded(q)

\* C3 as stated: at every handler boundary query_restart_count is at most
\* MAX_RESTART_COUNT unless the query is terminal with SERVFAIL encoded,
\* and the counters never decrease.
C3_RestartBoundAsStated ==
    [][\A q \in Queries : RestartWithinMax(q)' /\ CountersMonotone(q)]_vars

\* the restart count is at most one above the maximum; one above, the query
\* is about to run the InitRequest handler, which rejects it, or the
\* SERVFAIL response is encoded
RestartWithinMaxPlusOne(q) ==
    /\ iq[q].query_restart_count <= MAX_RESTART_COUNT + 1
    /\ iq[q].query_restart_count > MAX_RESTART_COUNT =>
          \/ pc[q] = "handle" /\ iq[q].state = "INIT_REQUEST_STATE"
          \/ ServfailEncoded(q)

\* C3 amended: query_restart_count is at most MAX_RESTART_COUNT + 1; it is
\* above the maximum only from the restart that exceeded it to the next
\* InitRequest invocation, which encodes SERVFAIL, and after that; the
\* counters never decrease during the life of one query state.
C3_RestartBound ==
    [][\A q \in Queries :
          RestartWithinMaxPlusOne(q)' /\ CountersMonotone(q)]_vars

C3_Witness ==
    /\ iq["A"].query_restart_count = MAX_RESTART_COUNT + 1
    /\ iq["A"].state = "FINISHED_STATE"
    /\ ServfailEncoded("A")

\* the InitRequest handler rejected the query: SERVFAIL encoded, final
\* state entered, nothing looked up
RejectedBy(q) ==
    /\ last'[q].rcode = "SERVFAIL"
    /\ ServfailEncoded(q)'
    /\ iq'[q].state = iq[q].final_state
    /\ last'[q].cache_lookups = 0
    /\ last'[q].deleg_lookups = 0

\* C4 as stated: the InitRequest handler run with query_restart_count
\* equal to MAX_RESTART_COUNT produces SERVFAIL, moves to the terminal
\* state and performs no cache or delegation lookup.
C4_RejectAtMaxAsStated ==
    [][\A q \in Queries :
          (InitRequestRuns(q)
             /\ iq[q].query_restart_count = MAX_RESTART_COUNT)
          => RejectedBy(q)]_vars

\* C4 amended: the InitRequest handler run with query_restart_count
\* greater than MAX_RESTART_COUNT produces SERVFAIL, moves to the terminal
\* state and performs no cache or delegation lookup.
C4_RejectAboveMax ==
    [][\A q \in Queries :
          (InitRequestRuns(q)
             /\ iq[q].query_restart_count > MAX_RESTART_COUNT)
          => RejectedBy(q)]_vars

C4_Witness ==
    /\ last["A"].op = "processInitRequest"
    /\ last["A"].rcode = "SERVFAIL"
    /\ iq["A"].query_restart_count > MAX_RESTART_COUNT
    /\ qstate["A"].depth <= ie.max_dependency_depth

\* C5: a cache hit with a CNAME in the InitRequest handler increments
\* query_restart_count by exactly 1, sets the state to InitRequest, returns
\* "continue", and leaves delegation point, outbound set and response
\* buffer unchanged.
C5_CnameRestart ==
    [][\A q \in Queries :
          (InitRequestRuns(q) /\ last'[q].cache = "cname") =>
              /\ iq'[q].query_restart_count = iq[q].query_restart_count + 1
              /\ iq'[q].state = "INIT_REQUEST_STATE"
              /\ last'[q].ret
              /\ pc'[q] = "handle"
              /\ iq'[q].dp = iq[q].dp
              /\ iq'[q].outlist = iq[q].outlist
              /\ buf'[q] = buf[q]]_vars

C5_Witness ==
    /\ last["A"].op = "processInitRequest"
    /\ last["A"].cache = "cname"
    /\ iq["A"].query_restart_count = 2
    /\ pc["A"] = "handle"

\* C6: the InitRequest handler run for a query whose dependency depth is
\* greater than max_dependency_depth, the restart count being within its
\* limit, produces SERVFAIL and enters the final state without a cache or
\* delegation lookup; a depth equal to the maximum is not rejected.
C6_DepthRejection ==
    [][\A q \in Queries :
          (InitRequestRuns(q)
             /\ iq[q].query_restart_count <= MAX_RESTART_COUNT)
          => /\ qstate[q].depth > ie.max_dependency_depth => RejectedBy(q)
             /\ qstate[q].depth = ie.max_dependency_depth =>
                   /\ last'[q].rcode # "SERVFAIL"
                   /\ last'[q].cache_lookups = 1]_vars

C6_Witness ==
    /\ last["A"].op = "processInitRequest"
    /\ last["A"].rcode = "SERVFAIL"
    /\ last["A"].cache_lookups = 0
    /\ iq["A"].query_restart_count = 0
    /\ qstate["A"].depth = ie.max_dependency_depth + 1
    /\ iq["A"].state = "FINISHED_STATE"

\* C7: for a non-empty prepend list P and a message with record sets R,
\* response assembly hands the encoder (array and record-set count) all of
\* P in insertion order followed by all of R, |P| + |R| entries.
C7_PrependOrder ==
    \A q \in Queries :
        (last[q].op = "iter_encode_respmsg" /\ last[q].ok
           /\ last[q].P # << >>)
        => /\ EncoderView(msg) = last[q].P \o last[q].R
           /\ Len(EncoderView(msg)) = Len(last[q].P) + Len(last[q].R)
           /\ buf[q].an = last[q].P \o last[q].R

\* the step is a call of iter_encode_respmsg for q with an empty prepend
\* list
AssemblesWithoutPrepend(q) ==
    /\ last'[q].op = "iter_encode_respmsg"
    /\ iq[q].prepend_list = << >>

\* C8: response assembly with an empty prepend list leaves the message's
\* record-set list and count unchanged, and what the encoder writes is the
\* message's record sets and rcode under the query's original flags, with
\* the EDNS fields normalized: advertised version and size, extended rcode
\* 0, only DO kept of the bits.
C8_EmptyPrependRoundTrip ==
    [][\A q \in Queries :
          AssemblesWithoutPrepend(q) =>
              /\ msg' = msg
              /\ last'[q].ok =>
                    /\ buf'[q].an = SubSeq(msg.rrsets, 1, msg.rrset_count)
                    /\ buf'[q].rcode = msg.rcode
                    /\ buf'[q].flags = iq[q].orig_qflags
                    /\ buf'[q].edns.edns_version = "EDNS_ADVERTISED_VERSION"
                    /\ buf'[q].edns.udp_size = "EDNS_ADVERTISED_SIZE"
                    /\ buf'[q].edns.ext_rcode = 0
                    /\ buf'[q].edns.bits = qstate[q].edns.bits \cap {"DO"}
                    /\ iq'[q] = iq[q]]_vars

C8_Witness ==
    /\ last["A"].op = "iter_encode_respmsg"
    /\ last["A"].ok
    /\ last["A"].P = << >>
    /\ Len(msg.rrsets) = 2
    /\ buf["A"].an = msg.rrsets
    /\ "Z" \in qstate["A"].edns.bits

\* C9: error_response invoked twice in a row with the same rcode leaves
\* the response buffer and the state (the final state) as the first
\* invocation left them.
C9_ErrorResponseIdempotent ==
    [][\A q \in Queries :
          (last'[q].op = "error_response"
             /\ last'[q].prev_op = "error_response"
             /\ last'[q].prev_rcode = last'[q].rcode)
          => /\ buf'[q] = buf[q]
             /\ iq'[q].state = iq[q].state
             /\ iq'[q].state = iq[q].final_state]_vars

\* error_response has run twice in a row with the same rcode
C9_Witness ==
    /\ last["A"].op = "error_response"
    /\ last["A"].prev_op = "error_response"
    /\ last["A"].rcode = "NXDOMAIN"
    /\ last["A"].prev_rcode = "NXDOMAIN"
    /\ iq["A"].state = "PRIME_RESP_STATE"
    /\ buf["A"].rcode = "NXDOMAIN"

\* the upstream queries of the invocation are addressed to the forward
\* address, ask for DNSSEC and carry CD iff the client query had CD
SentToForwarder(q) ==
    \A i \in 1 .. Len(inv[q].sent) :
        LET e == inv[q].sent[i]
        IN  /\ e.addr = "fwd_addr"
            /\ e.dnssec = 1
            /\ e.qname = qstate[q].qinfo.qname
            /\ e.qtype = qstate[q].qinfo.qtype
            /\ ("CD" \in e.flags) <=> qstate[q].qinfo.has_cd
            /\ e.flags \subseteq {"CD"}

\* no handler of the state machine ran and the query state is as zeroed
StateMachineUntouched(q) ==
    /\ inv[q].handlers = 0
    /\ pc[q] = "idle"
    /\ minfo[q] # NULL => [iq[q] EXCEPT !.outlist = << >>] = ZeroIq

\* C10 as stated: with a forward address configured, a new-query event
\* sends exactly one upstream query to the forward address, DNSSEC asked
\* for and CD as the client set it; the outbound set holds exactly that
\* entry, the module state is wait-for-reply and the state machine did not
\* run.
C10_ForwardNewAsStated ==
    \A q \in Queries :
        last[q].op = "fwd_new" =>
            /\ Len(inv[q].sent) = 1
            /\ SentToForwarder(q)
            /\ minfo[q] # NULL
            /\ iq[q].outlist = inv[q].sent
            /\ ext_state[q] = "module_wait_reply"
            /\ StateMachineUntouched(q)

\* C10 amended: with a forward address configured, a new-query event sends
\* at most one upstream query, to the forward address, DNSSEC asked for
\* and CD as the client set it, and the state machine does not run; when
\* the query state is allocated and the send succeeds, exactly one query
\* was sent, the outbound set holds exactly that entry and the module
\* state is wait-for-reply; otherwise the module state is error and the
\* outbound set is empty.
C10_ForwardNew ==
    \A q \in Queries :
        last[q].op = "fwd_new" =>
            /\ Len(inv[q].sent) <= 1
            /\ SentToForwarder(q)
            /\ StateMachineUntouched(q)
            /\ last[q].ret =>
                  /\ Len(inv[q].sent) = 1
                  /\ minfo[q] # NULL
                  /\ iq[q].outlist = inv[q].sent
                  /\ ext_state[q] = "module_wait_reply"
            /\ ~last[q].ret =>
                  /\ ext_state[q] = "module_error"
                  /\ minfo[q] # NULL => iq[q].outlist = << >>

C10_Witness ==
    /\ last["A"].op = "fwd_new"
    /\ last["A"].ret
    /\ qstate["A"].qinfo.has_cd
    /\ Len(iq["A"].outlist) = 1
    /\ ext_state["A"] = "module_wait_reply"

\* the step is an invocation of iter_operate for q with a forward address
\* configured
ForwardRuns(q) ==
    /\ ie.fwd_addrlen # 0
    /\ pc[q] = "idle"
    /\ last'[q].op \in {"fwd_new", "perform_forward"}
    /\ last'[q].event # "none"

\* the event is a reply with an outbound reference that parses and encodes
GoodReply(l) ==
    /\ l.op = "perform_forward"
    /\ l.event = "module_event_reply"
    /\ l.outbound # NULL
    /\ l.parse_ok
    /\ l.enc_ok

\* the replies stored into the cache for q
StoredFor(q) == {e \in cache : e[1] = q}

\* C11: in forwarding mode the module state becomes finished only by a
\* reply event with an outbound reference whose reply parses and encodes,
\* and the reply is stored into the cache exactly then; a timeout, a
\* transport error, a missing outbound reference, a send failure on new, a
\* parse failure or an encode failure set the module state to error and
\* store nothing.
C11_ForwardProtocol ==
    [][\A q \in Queries :
          ForwardRuns(q) =>
              /\ ext_state[q] = "module_state_initial" =>
                    last'[q].op = "fwd_new"
              /\ last'[q].op = "fwd_new" =>
                    /\ ext_state'[q] = IF last'[q].ret
                                       THEN "module_wait_reply"
                                       ELSE "module_error"
                    /\ cache' = cache
              /\ last'[q].op = "perform_forward" =>
                    /\ ext_state[q] = "module_wait_reply"
                    /\ ext_state'[q] = IF GoodReply(last'[q])
                                       THEN "module_finished"
                                       ELSE "module_error"
                    /\ GoodReply(last'[q]) =>
                          /\ StoredFor(q) = {}
                          /\ Cardinality(StoredFor(q)') = 1
                    /\ ~GoodReply(last'[q]) => cache' = cache]_vars

C11_Witness ==
    /\ ext_state["A"] = "module_finished"
    /\ last["A"].op = "perform_forward"
    /\ last["A"].event = "module_event_reply"
    /\ StoredFor("A") # {}
    /\ buf["A"].qr = 1

\* C12: in state-machine mode an event other than new-query or reply
\* (timeout, transport error or any other) sets the module state to error,
\* runs no state handler and leaves the query state (state, final state,
\* counters, delegation point, outbound set) unchanged.
C12_UnrecognizedEvent ==
    [][\A q \in Queries :
          (ie.fwd_addrlen = 0 /\ pc[q] = "idle"
             /\ inv'[q].event \in
                   Events \ {"module_event_new", "module_event_reply"}
             /\ inv'[q] # inv[q])
          => /\ ext_state'[q] = "module_error"
             /\ inv'[q].handlers = 0
             /\ pc'[q] = "idle"
             /\ last'[q].op = "bad_event"
             /\ iq'[q] = iq[q]
             /\ minfo'[q] = minfo[q]
             /\ buf'[q] = buf[q]]_vars

\* a timeout reached a query that had stopped in INIT_REQUEST_2_STATE after
\* one restart
C12_Witness ==
    /\ ie.fwd_addrlen = 0
    /\ inv["A"].event = "module_event_timeout"
    /\ ext_state["A"] = "module_error"
    /\ iq["A"].state = "INIT_REQUEST_2_STATE"
    /\ iq["A"].query_restart_count = 1
    /\ iq["A"].dp # NULL

\* C13: cleanup of a query that got its new-query event, in any reachable
\* condition (its query state not successfully created, while waiting,
\* after finishing or erroring, after a previous cleanup) completes without
\* fault and leaves the outbound set empty and minfo[id] NULL.
C13_CleanupAnyTime ==
    \A q \in Queries :
        (last[q].op = "iter_clear" /\ q \in started) =>
            /\ ~fault
            /\ minfo[q] = NULL
            /\ iq[q].outlist = << >>

\* what the module holds for query q
QueryView(q) == <<iq[q], minfo[q], buf[q], ext_state[q]>>

\* the step processes an event for q
EventFor(q) ==
    <<QueryView(q), qstate[q], pc[q], inv[q], last[q]>>' #
    <<QueryView(q), qstate[q], pc[q], inv[q], last[q]>>

\* C14: for any interleaving of events delivered to two independent
\* queries, each processed to completion before the next, processing an
\* event for one query, also one that ends in module error, never changes
\* the other's query state, outbound set, response buffer or module state.
C14_QueryIsolation ==
    [][\A q \in Queries : \A p \in Queries \ {q} :
          EventFor(q) =>
              /\ QueryView(p)' = QueryView(p)
              /\ pc[p] = "idle" /\ pc'[p] = "idle"]_vars

\* A ended in module error while B waits for its reply with its outbound
\* entry
C14_Witness ==
    /\ ext_state["A"] = "module_error"
    /\ last["A"].op = "perform_forward"
    /\ ext_state["B"] = "module_wait_reply"
    /\ Len(iq["B"].outlist) = 1
    /\ last["B"].op = "fwd_new"

\* C15: when the InitRequest handler has a cache miss and the delegation
\* lookup returns no delegation point, the handler suspends (returns false)
\* having arranged a subordinate priming query for this query.
C15_PrimingSuspend ==
    [][\A q \in Queries :
          (/\ InitRequestRuns(q)
           /\ last'[q].cache = "miss"
           /\ last'[q].deleg_lookups = 1
           /\ iq'[q].dp = NULL) =>
              /\ ~last'[q].ret
              /\ pc'[q] = "idle"
              /\ inv'[q].subqueries = 1]_vars

\* C16: on a cache miss the name passed to the delegation lookup is the
\* query name without its leftmost label when the type is DS and the name
\* is not the root, and the unmodified query name otherwise; for a DS query
\* it is never the non-root query name itself.
C16_DsDelegationName ==
    [][\A q \in Queries :
          (InitRequestRuns(q) /\ last'[q].deleg_lookups = 1) =>
              LET qn == qstate[q].qinfo.qname
                  dn == last'[q].delname[1]
              IN  /\ last'[q].cache = "miss"
                  /\ IF qstate[q].qinfo.qtype = "DS" /\ Len(qn) > 0
                     THEN /\ Len(dn) = Len(qn) - 1
                          /\ \A i \in 1..Len(dn) : dn[i] = qn[i + 1]
                     ELSE /\ Len(dn) = Len(qn)
                          /\ \A i \in 1..Len(dn) : dn[i] = qn[i]]_vars

\* a DS query for example.com looked up its delegation under com
C16_Witness ==
    \E q \in Queries :
        /\ last[q].op = "processInitRequest"
        /\ last[q].deleg_lookups = 1
        /\ qstate[q].qinfo.qtype = "DS"
        /\ qstate[q].qinfo.qname = <<"example", "com">>
        /\ last[q].delname = << <<"com">> >>

\* the step is a call of iter_encode_respmsg for q that fails: splicing a
\* non-empty prepend list fails to allocate, or the encoder reports failure
AssemblyFails(q) ==
    /\ last'[q].op = "iter_encode_respmsg"
    /\ \/ last'[q].P # << >> /\ ~last'[q].alloc_ok
       \/ ~last'[q].enc_ok

\* C17: whenever response assembly fails, by allocation in the splice or in
\* the encoder, the response buffer afterwards holds a SERVFAIL error
\* response echoing the query and the query state is in its final state; the
\* module state is not set to error.
C17_EncodeFailureServfail ==
    [][\A q \in Queries :
          AssemblyFails(q) =>
              /\ ~last'[q].ok
              /\ ServfailEncoded(q)'
              /\ iq'[q].state = iq[q].final_state
              /\ ext_state'[q] = ext_state[q]
              /\ ext_state'[q] # "module_error"]_vars

\* the splice of a non-empty prepend list failed to allocate in the second of
\* two assemblies and the buffer holds the SERVFAIL
C17_Witness ==
    \E q \in Queries :
        /\ last[q].op = "iter_encode_respmsg"
        /\ last[q].P # << >> /\ ~last[q].alloc_ok
        /\ ~last[q].ok
        /\ last[q].prev_op = "iter_encode_respmsg"
        /\ ServfailEncoded(q)
        /\ iq[q].state = iq[q].final_state

\* C18: a transition whose target is a response state while no response
\* object is attached to the query context does not enter the response
\* state: in every reachable state iq->state is a response state only if
\* qstate->reply is present.
C18_ResponseStateHasReply ==
    \A q \in Queries :
        (minfo[q] # NULL /\ iter_state_is_responsestate(iq[q].state)) =>
            qstate[q].reply # NULL

\* an upstream query has been issued for q in the current invocation, or an
\* entry is in its outbound set
UpstreamIssued(q) == inv[q].sent # << >> \/ iq[q].outlist # << >>

\* C19 as stated: in either mode, whenever an upstream query is issued the
\* query state's delegation point is non-null.
C19_DelegationBeforeUpstreamAsStated ==
    \A q \in Queries : UpstreamIssued(q) => iq[q].dp # NULL

\* C19: an upstream query is issued, and an outbound entry exists, only in
\* forwarding mode, addressed to the configured forward address, and there
\* the delegation point of the query state is null; in state machine mode
\* no upstream query is issued, so none is issued without a delegation
\* point.
C19_UpstreamOnlyForwarding ==
    \A q \in Queries :
        UpstreamIssued(q) =>
            /\ ie.fwd_addrlen # 0
            /\ iq[q].dp = NULL
            /\ \A i \in 1..Len(inv[q].sent) :
                   inv[q].sent[i].addr = "fwd_addr"
            /\ \A i \in 1..Len(iq[q].outlist) :
                   iq[q].outlist[i].addr = "fwd_addr"

\* a forwarded query is outstanding
C19_Witness ==
    \E q \in Queries :
        /\ last[q].op = "fwd_new"
        /\ Len(inv[q].sent) = 1
        /\ Len(iq[q].outlist) = 1
        /\ ie.fwd_addrlen # 0

\* the step is the turn of the loop of iter_handle for q after which the
\* loop stops
LoopStops(q) == pc[q] = "handle" /\ pc'[q] = "idle"

\* C20: every invocation of the driving loop, for any sequence of cache and
\* delegation lookup results, runs a bounded number of handlers, and it
\* stops only when a handler returned false or the state Finished has been
\* reached.
C20_LoopTermination ==
    [][\A q \in Queries :
          /\ inv'[q].handlers <= MAX_RESTART_COUNT + 2
          /\ LoopStops(q) =>
                \/ last'[q].op = "processInitRequest" /\ ~last'[q].ret
                \/ iq'[q].state = "FINISHED_STATE"]_vars

\* the last handler run for q invoked error_response
HandlerErrored(q) ==
    last[q].op = "processInitRequest" /\ last[q].rcode # "none"

DelegationFound(q) ==
    /\ InitRequestRuns(q)
    /\ last'[q].cache = "miss"
    /\ last'[q].deleg_lookups = 1
    /\ last'[q].deleg # NULL

\* C22: when the InitRequest handler has a cache miss and the delegation
\* lookup returns a delegation point, it records that delegation point in
\* the query state, moves to InitRequest2 and returns continue, leaving
\* query_restart_count alone and issuing no query; whenever iq->state is
\* InitRequest2 the delegation point is non-null.
C22_DelegationFound ==
    [][\A q \in Queries :
          /\ DelegationFound(q) =>
                /\ iq'[q].dp = last'[q].deleg
                /\ iq'[q].state = "INIT_REQUEST_2_STATE"
                /\ last'[q].ret
                /\ pc'[q] = "handle"
                /\ iq'[q].query_restart_count = iq[q].query_restart_count
                /\ iq'[q].outlist = iq[q].outlist
                /\ inv'[q].sent = inv[q].sent
                /\ inv'[q].subqueries = inv[q].subqueries
          /\ iq[q].state = "INIT_REQUEST_2_STATE" => iq[q].dp # NULL
          /\ iq'[q].state = "INIT_REQUEST_2_STATE" => iq'[q].dp # NULL]_vars

\* the handler found a delegation point after a restart and moved to
\* InitRequest2
C22_Witness ==
    \E q \in Queries :
        /\ last[q].op = "processInitRequest"
        /\ last[q].cache = "miss"
        /\ last[q].deleg = "dp"
        /\ iq[q].state = "INIT_REQUEST_2_STATE"
        /\ iq[q].dp = "dp"
        /\ iq[q].query_restart_count > 0
        /\ pc[q] = "handle"

====
